---- MODULE Spec2Model ----
(***************************************************************************)
(* Crown work order lifecycle of the Dental AI Agent backend:              *)
(*   - WorkOrderQueries (the store adapter over the lab_slips table),      *)
(*   - the /work-orders HTTP routes built on it,                           *)
(*   - AICommandExecutor (parse, confidence gate, dispatch, response).     *)
(*                                                                         *)
(* JavaScript values are modelled as follows: the empty string "" stands   *)
(* for every falsy request value (undefined, null, ""), 0 for a falsy      *)
(* number, Undefined for a field that was never assigned, Null for SQL     *)
(* NULL.  A timestamp is abstracted to Stamp (the value of new Date()).    *)
(***************************************************************************)
EXTENDS Integers, Sequences, FiniteSets, TLC

VARIABLES
    store,      \* the lab_slips table: id -> row
    nextId,     \* the next id the table hands out (ids are never reused); the
                \* table takes MaxOrders inserts
    resp,       \* the response of the last HTTP request handled in one piece
    req,        \* POST /work-orders requests in flight, one per client
    cmd         \* the executeCommand invocation in flight

vars == <<store, nextId, resp, req, cmd>>

----------------------------------------------------------------------------
(* Bounds of the model *)

MaxOrders == 2      \* rows ever inserted into lab_slips
NumClients == 2     \* clients posting work orders concurrently
MaxPad == 1         \* blanks on either side of a procedure code

----------------------------------------------------------------------------
(* Values *)

Null == "null"
Undefined == "undefined"
Stamp == "timestamp"

\* WorkOrderStatus
CrownStatuses ==
    {"pending", "scanned", "designed", "milling", "sintering", "finishing",
     "qc", "ready", "seated", "cancelled", "on_hold"}

\* lab_slips_status_check
AllowedStatuses ==
    {"draft", "sent", "received", "completed", "cancelled"} \cup CrownStatuses

\* status values a caller supplies ("" is a missing status)
StatusInputs == {"", "pending", "milling", "seated", "draft", "bogus"}

\* notes values a caller supplies ("" is missing or empty notes)
NotesInputs == {""}

\* outcomes of the read of the current row, which updateWorkOrder makes only
\* when lab notes are given
GetFails(notes) == IF notes = "" THEN {FALSE} ELSE BOOLEAN

\* external procedure ids of the practice-management system (0 is a missing id)
ProcIds == {101, 102}

\* ids a caller may name: every id the table can hand out and one it never does
IdInputs == 1..(MaxOrders + 1)

Clients == 1..NumClients

----------------------------------------------------------------------------
(* Procedure classifier *)

\* String.prototype.toUpperCase, one character
ToUpperCase(c) ==
    CASE c = "d" -> "D"
      [] c = "e" -> "E"
      [] OTHER -> c

\* String.prototype.trim
RECURSIVE TrimLeft(_)
TrimLeft(s) ==
    IF s # <<>> /\ Head(s) = " " THEN TrimLeft(Tail(s)) ELSE s

RECURSIVE TrimRight(_)
TrimRight(s) ==
    IF s # <<>> /\ s[Len(s)] = " " THEN TrimRight(SubSeq(s, 1, Len(s) - 1)) ELSE s

Trim(s) == TrimRight(TrimLeft(s))

\* CROWN_PROCEDURE_CODES (its keys)
CROWN_PROCEDURE_CODES ==
    {<<"D", "2", "7", "4", "0">>, <<"D", "2", "7", "5", "0">>,
     <<"D", "2", "7", "5", "1">>, <<"D", "2", "7", "5", "2">>}

isCrownProcedure(code) == code \in CROWN_PROCEDURE_CODES

\* DEFAULT_DETECTION_CONFIG.monitoredCodes
monitoredCodes == CROWN_PROCEDURE_CODES

recommendMaterialForCode(code) ==
    IF code = <<"D", "2", "7", "4", "0">> THEN "Zirconia"
    ELSE "Porcelain Fused to Metal"

\* detectCrownProcedure comparing the code as it was given.
detectCrownProcedure_NoNormalize(procedureCode) ==
    IF procedureCode \in monitoredCodes /\ isCrownProcedure(procedureCode)
    THEN [isCrown |-> TRUE, confidence |-> 1,
          recommendedMaterial |-> recommendMaterialForCode(procedureCode)]
    ELSE [isCrown |-> FALSE, confidence |-> 0, recommendedMaterial |-> ""]

\* detectCrownProcedure with the default configuration
detectCrownProcedure(procedureCode) ==
    LET normalizedCode == [i \in 1..Len(Trim(procedureCode)) |->
                              ToUpperCase(Trim(procedureCode)[i])]
    IN  IF normalizedCode \in monitoredCodes /\ isCrownProcedure(normalizedCode)
        THEN [isCrown |-> TRUE, confidence |-> 1,
              recommendedMaterial |-> recommendMaterialForCode(normalizedCode)]
        ELSE [isCrown |-> FALSE, confidence |-> 0, recommendedMaterial |-> ""]

\* String.prototype.toLowerCase, one character
ToLowerCase(c) ==
    CASE c = "R" -> "r"
      [] c = "U" -> "u"
      [] c = "S" -> "s"
      [] c = "H" -> "h"
      [] c = "D" -> "d"
      [] OTHER -> c

\* String.prototype.includes
Includes(s, keyword) ==
    \E i \in 1..(Len(s) - Len(keyword) + 1) :
        SubSeq(s, i, i + Len(keyword) - 1) = keyword

\* urgentKeywords
urgentKeywords ==
    {<<"u", "r", "g", "e", "n", "t">>,
     <<"a", "s", "a", "p">>,
     <<"r", "u", "s", "h">>,
     <<"e", "m", "e", "r", "g", "e", "n", "c", "y">>,
     <<"s", "a", "m", "e", " ", "d", "a", "y">>}

\* 1000 * 60 * 60 * 24, the milliseconds of a day
DayMs == 86400000

\* Math.ceil(a / b) for b > 0
Ceil(a, b) == -((-a) \div b)

\* determinePriority with the day difference rounded down.
determinePriority_Floor(now, appointmentDate, notes, defaultPriority) ==
    LET notesLower == [i \in 1..Len(notes) |-> ToLowerCase(notes[i])]
        daysUntilAppointment == (appointmentDate.time - now) \div DayMs
    IN  IF notes # <<>> /\ \E keyword \in urgentKeywords : Includes(notesLower, keyword)
        THEN "asap"
        ELSE IF appointmentDate.given /\ daysUntilAppointment <= 1 THEN "asap"
        ELSE IF appointmentDate.given /\ daysUntilAppointment <= 3 THEN "urgent"
        ELSE defaultPriority

\* determinePriority; now is the value of new Date().getTime()
determinePriority(now, appointmentDate, notes, defaultPriority) ==
    LET notesLower == [i \in 1..Len(notes) |-> ToLowerCase(notes[i])]
        daysUntilAppointment == Ceil(appointmentDate.time - now, DayMs)
    IN  IF notes # <<>> /\ \E keyword \in urgentKeywords : Includes(notesLower, keyword)
        THEN "asap"
        ELSE IF appointmentDate.given /\ daysUntilAppointment <= 1 THEN "asap"
        ELSE IF appointmentDate.given /\ daysUntilAppointment <= 3 THEN "urgent"
        ELSE defaultPriority

----------------------------------------------------------------------------
(* Store adapter: WorkOrderQueries *)

\* The row createWorkOrder inserts; now is the value of new Date().
NewRow(params, now) ==
    [opendental_procedure_id |-> params.openDentalProcedureId,
     opendental_patient_id |-> params.openDentalPatientId,
     assignedTo   |-> params.assignedTo,
     priority     |-> params.priority,
     created_at   |-> now,
     status       |-> IF params.status # "" THEN params.status ELSE "pending",
     completed_at |-> Null,
     labNotes     |-> Null,
     pdf_storage_path |-> Null]

\* createWorkOrder over a table with a unique index on opendental_procedure_id.
createWorkOrder_Unique(st, nid, params, dbFail) ==
    IF dbFail \/ NewRow(params, nid).status \notin AllowedStatuses
       \/ \E i \in DOMAIN st :
              st[i].opendental_procedure_id = params.openDentalProcedureId
    THEN [store |-> st, ok |-> FALSE, error |-> TRUE]
    ELSE [store |-> [i \in DOMAIN st \cup {nid} |->
                        IF i = nid THEN NewRow(params, nid) ELSE st[i]],
          ok |-> TRUE, error |-> FALSE]

\* createWorkOrder: insert(record).select().single(); rows are created at
\* distinct instants, in the order of their ids.  The table holds no
\* uniqueness constraint on opendental_procedure_id (the index is a plain one).
createWorkOrder(st, nid, params, dbFail) ==
    IF dbFail \/ NewRow(params, nid).status \notin AllowedStatuses
    THEN [store |-> st, ok |-> FALSE, error |-> TRUE]
    ELSE [store |-> [i \in DOMAIN st \cup {nid} |->
                        IF i = nid THEN NewRow(params, nid) ELSE st[i]],
          ok |-> TRUE, error |-> FALSE]

\* getWorkOrderById: select.eq(id).single(); no row is an error of single().
getWorkOrderById(st, id, dbFail) ==
    IF dbFail \/ id \notin DOMAIN st
    THEN [ok |-> FALSE, error |-> TRUE, data |-> Null]
    ELSE [ok |-> TRUE, error |-> FALSE, data |-> st[id]]

\* getWorkOrderByProcedureId: the newest row of the procedure; PGRST116 (no
\* row) is turned into {data: null, error: null}.
getWorkOrderByProcedureId(st, procedureId, dbFail) ==
    IF dbFail THEN [ok |-> FALSE, error |-> TRUE]
    ELSE IF \E i \in DOMAIN st : st[i].opendental_procedure_id = procedureId
         THEN [ok |-> TRUE, error |-> FALSE]
         ELSE [ok |-> FALSE, error |-> FALSE]

\* workOrderExistsForProcedure: data !== null, the error is dropped.
workOrderExistsForProcedure(st, procedureId, dbFail) ==
    getWorkOrderByProcedureId(st, procedureId, dbFail).ok

\* lab_slip_data, the JSONB payload of a row
lab_slip_data(row) ==
    [assignedTo |-> row.assignedTo, priority |-> row.priority,
     labNotes |-> row.labNotes]

\* {...current.lab_slip_data, labNotes: params.labNotes}
SpreadLabNotes(data, labNotes) ==
    [f \in DOMAIN data \cup {"labNotes"} |->
        IF f = "labNotes" THEN labNotes ELSE data[f]]

\* The row an update leaves: only the assigned fields of `updates` are written;
\* lab_slip_data is assigned when lab notes are given and the read of the
\* current row returned it.
ApplyUpdates(row, params, current) ==
    LET data == IF params.labNotes # Undefined /\ current.ok
                THEN SpreadLabNotes(lab_slip_data(current.data), params.labNotes)
                ELSE lab_slip_data(row)
    IN
    [row EXCEPT
        !.status       = IF params.status # Undefined THEN params.status ELSE @,
        !.completed_at = IF params.completedAt # Undefined THEN params.completedAt ELSE @,
        !.assignedTo   = data.assignedTo,
        !.priority     = data.priority,
        !.labNotes     = data.labNotes,
        !.pdf_storage_path = IF params.pdfStoragePath # Undefined
                             THEN params.pdfStoragePath ELSE @]

\* updateWorkOrder: update(updates).eq(id).select().single(); a row that fails
\* lab_slips_status_check, or no row at all, is an error.
updateWorkOrder(st, params, getFail, dbFail) ==
    LET current == getWorkOrderById(st, params.id, getFail)
    IN  IF dbFail \/ params.id \notin DOMAIN st
           \/ ApplyUpdates(st[params.id], params, current).status \notin AllowedStatuses
        THEN [store |-> st, ok |-> FALSE, error |-> TRUE]
        ELSE [store |-> [st EXCEPT ![params.id] = ApplyUpdates(@, params, current)],
              ok |-> TRUE, error |-> FALSE]

\* updateWorkOrderStatus stamping completedAt on every status.
updateWorkOrderStatus_StampAlways(st, id, status, notes, getFail, dbFail) ==
    updateWorkOrder(st,
        [id          |-> id,
         status      |-> status,
         labNotes    |-> IF notes # "" THEN notes ELSE Undefined,
         completedAt |-> Stamp,
         pdfStoragePath |-> Undefined],
        getFail, dbFail)

\* updateWorkOrderStatus over a workflow whose final statuses cannot be left.
updateWorkOrderStatus_Terminal(st, id, status, notes, getFail, dbFail) ==
    IF id \in DOMAIN st /\ st[id].status \in {"seated", "cancelled"}
    THEN [store |-> st, ok |-> FALSE, error |-> TRUE]
    ELSE updateWorkOrder(st,
            [id          |-> id,
             status      |-> status,
             labNotes    |-> IF notes # "" THEN notes ELSE Undefined,
             completedAt |-> IF status = "seated" THEN Stamp ELSE Undefined,
             pdfStoragePath |-> Undefined],
            getFail, dbFail)

\* updateWorkOrderStatus
updateWorkOrderStatus(st, id, status, notes, getFail, dbFail) ==
    updateWorkOrder(st,
        [id          |-> id,
         status      |-> status,
         labNotes    |-> IF notes # "" THEN notes ELSE Undefined,
         completedAt |-> IF status = "seated" THEN Stamp ELSE Undefined,
         pdfStoragePath |-> Undefined],
        getFail, dbFail)

\* deleteWorkOrder as a soft delete: the row stays, marked cancelled.
deleteWorkOrder_Soft(st, id, dbFail) ==
    IF dbFail THEN [store |-> st, success |-> FALSE, error |-> TRUE]
    ELSE [store |-> [i \in DOMAIN st |->
                        IF i = id THEN [st[i] EXCEPT !.status = "cancelled"]
                        ELSE st[i]],
          success |-> TRUE, error |-> FALSE]

\* deleteWorkOrder: delete().eq(id); deleting no row is no error.
deleteWorkOrder(st, id, dbFail) ==
    IF dbFail THEN [store |-> st, success |-> FALSE, error |-> TRUE]
    ELSE [store |-> [i \in DOMAIN st \ {id} |-> st[i]],
          success |-> TRUE, error |-> FALSE]

\* The status history of the CrownWorkOrder built from a stored row: lab_slips
\* has no history column and the conversion fills in an empty list.
statusHistory(row) == <<>>

----------------------------------------------------------------------------
(* HTTP routes, each handled without another request in between *)

NoResp == [op |-> "none", code |-> 0]

ValidBody(procedureId, code) ==
    [openDentalPatientId |-> 7, openDentalProcedureId |-> procedureId,
     patient |-> TRUE, procedure |-> TRUE, code |-> code, status |-> ""]

\* request bodies a caller supplies: well-formed ones and one per rejection
PostBodies ==
    {ValidBody(p, <<"D", "2", "7", "4", "0">>) : p \in ProcIds}
    \cup {ValidBody(101, <<" ", "d", "2", "7", "5", "0", " ">>),
          ValidBody(101, <<"D", "0", "1", "2", "0">>),
          ValidBody(0, <<"D", "2", "7", "4", "0">>),
          [ValidBody(101, <<"D", "2", "7", "4", "0">>) EXCEPT !.openDentalPatientId = 0],
          [ValidBody(101, <<"D", "2", "7", "4", "0">>) EXCEPT !.patient = FALSE],
          [ValidBody(101, <<"D", "2", "7", "4", "0">>) EXCEPT !.procedure = FALSE],
          [ValidBody(102, <<"D", "2", "7", "4", "0">>) EXCEPT !.status = "seated"]}

\* The validation with the required-field check only.
PostValid_FieldsOnly(body) ==
    /\ body.openDentalPatientId # 0
    /\ body.openDentalProcedureId # 0
    /\ body.patient
    /\ body.procedure

\* The body passes the required-field and crown-code validation.
PostValid(body) ==
    /\ body.openDentalPatientId # 0
    /\ body.openDentalProcedureId # 0
    /\ body.patient
    /\ body.procedure
    /\ detectCrownProcedure(body.code).isCrown

\* The parameters of createWorkOrder with the status taken from the body.
CreateParams_BodyStatus(body) ==
    [openDentalProcedureId |-> body.openDentalProcedureId,
     openDentalPatientId |-> body.openDentalPatientId,
     assignedTo |-> "Lab Tech", priority |-> "routine", status |-> body.status]

\* The parameters the route hands to createWorkOrder: status is the literal
\* 'pending', a status in the body is not read.
CreateParams(body) ==
    [openDentalProcedureId |-> body.openDentalProcedureId,
     openDentalPatientId |-> body.openDentalPatientId,
     assignedTo |-> "Lab Tech", priority |-> "routine", status |-> "pending"]

\* POST /work-orders
PostWorkOrders(body, lookupFail, insertFail) ==
    LET exists == workOrderExistsForProcedure(store, body.openDentalProcedureId, lookupFail)
        made   == createWorkOrder(store, nextId, CreateParams(body), insertFail)
    IN  /\ IF ~PostValid(body)
           THEN /\ resp' = [op |-> "POST", code |-> 400]
                /\ UNCHANGED <<store, nextId>>
           ELSE IF exists
           THEN /\ resp' = [op |-> "POST", code |-> 409]
                /\ UNCHANGED <<store, nextId>>
           ELSE IF made.error \/ ~made.ok
           THEN /\ resp' = [op |-> "POST", code |-> 500]
                /\ UNCHANGED <<store, nextId>>
           ELSE /\ nextId <= MaxOrders
                /\ resp' = [op |-> "POST", code |-> 201]
                /\ store' = made.store
                /\ nextId' = nextId + 1
        /\ UNCHANGED <<req, cmd>>

\* PATCH /work-orders/:id/status
PatchStatus(id, status, notes, getFail, dbFail) ==
    LET r == updateWorkOrderStatus(store, id, status, notes, getFail, dbFail)
    IN  /\ IF status = ""
           THEN /\ resp' = [op |-> "PATCH", code |-> 400]
                /\ UNCHANGED store
           ELSE /\ resp' = [op |-> "PATCH", code |-> IF r.error THEN 500
                                     ELSE IF ~r.ok THEN 404 ELSE 200]
                /\ store' = r.store
        /\ UNCHANGED <<nextId, req, cmd>>

\* DELETE /work-orders/:id
DeleteWorkOrders(id, dbFail) ==
    LET r == deleteWorkOrder(store, id, dbFail)
    IN  /\ resp' = [op |-> "DELETE", code |-> IF r.error THEN 500
                             ELSE IF ~r.success THEN 404 ELSE 200]
        /\ store' = r.store
        /\ UNCHANGED <<nextId, req, cmd>>

----------------------------------------------------------------------------
(* POST /work-orders, one step per store call, for requests that interleave *)

IdleReq == [pc |-> "idle", procedureId |-> 0, lookup |-> "none", code |-> 0]

\* The handler up to its first await: validation of the body.
PostReceive(c, body) ==
    /\ req[c].pc = "idle"
    /\ req' = [req EXCEPT ![c] =
                 IF PostValid(body)
                 THEN [IdleReq EXCEPT !.pc = "check",
                                      !.procedureId = body.openDentalProcedureId]
                 ELSE [IdleReq EXCEPT !.pc = "done", !.code = 400]]
    /\ UNCHANGED <<store, nextId, resp, cmd>>

\* await queries.workOrderExistsForProcedure(openDentalProcedureId)
PostCheck(c, lookupFail) ==
    LET found  == getWorkOrderByProcedureId(store, req[c].procedureId, lookupFail)
        exists == workOrderExistsForProcedure(store, req[c].procedureId, lookupFail)
        seen   == IF found.error THEN "error" ELSE IF found.ok THEN "found" ELSE "absent"
    IN  /\ req[c].pc = "check"
        /\ req' = [req EXCEPT ![c] =
                     IF exists
                     THEN [@ EXCEPT !.pc = "done", !.lookup = seen, !.code = 409]
                     ELSE [@ EXCEPT !.pc = "insert", !.lookup = seen]]
        /\ UNCHANGED <<store, nextId, resp, cmd>>

\* await queries.createWorkOrder({...})
PostInsert(c, insertFail) ==
    LET made == createWorkOrder(store, nextId,
                    CreateParams(ValidBody(req[c].procedureId, <<"D", "2", "7", "4", "0">>)),
                    insertFail)
    IN  /\ req[c].pc = "insert"
        /\ IF made.error \/ ~made.ok
           THEN /\ req' = [req EXCEPT ![c] = [@ EXCEPT !.pc = "done", !.code = 500]]
                /\ UNCHANGED <<store, nextId>>
           ELSE /\ nextId <= MaxOrders
                /\ req' = [req EXCEPT ![c] = [@ EXCEPT !.pc = "done", !.code = 201]]
                /\ store' = made.store
                /\ nextId' = nextId + 1
        /\ UNCHANGED <<resp, cmd>>

\* The response is sent; the client may post again.
PostReply(c) ==
    /\ req[c].pc = "done"
    /\ req' = [req EXCEPT ![c] = IdleReq]
    /\ UNCHANGED <<store, nextId, resp, cmd>>

----------------------------------------------------------------------------
(* Store adapter: listing *)

\* order('created_at', {ascending: false}): ids are handed out in creation order
RECURSIVE NewestFirst(_)
NewestFirst(ids) ==
    IF ids = {} THEN <<>>
    ELSE LET newest == CHOOSE x \in ids : \A y \in ids : y <= x
         IN  <<newest>> \o NewestFirst(ids \ {newest})

\* limit(n)
Limit(rows, n) == SubSeq(rows, 1, IF Len(rows) < n THEN Len(rows) ELSE n)

\* WorkOrderFilters with no filter supplied: "" and 0 stand for an absent
\* (falsy) value, status is absent, one status or an array of statuses.
NoFilters ==
    [status |-> [kind |-> "none", one |-> "", many |-> {}],
     assignedTo |-> "", patientId |-> 0, procedureId |-> 0,
     dateFrom |-> 0, dateTo |-> 0, priority |-> ""]

\* filters.status = one status
OneStatus(s) ==
    IF s = "" THEN NoFilters.status ELSE [kind |-> "one", one |-> s, many |-> {}]

\* The where clauses listWorkOrders adds to the query.
Selected(row, filters) ==
    /\ filters.status.kind = "many" => row.status \in filters.status.many
    /\ filters.status.kind = "one" => row.status = filters.status.one
    /\ filters.assignedTo # "" => row.assignedTo = filters.assignedTo
    /\ filters.patientId # 0 => row.opendental_patient_id = filters.patientId
    /\ filters.procedureId # 0 => row.opendental_procedure_id = filters.procedureId
    /\ filters.dateFrom # 0 => row.created_at >= filters.dateFrom
    /\ filters.dateTo # 0 => row.created_at <= filters.dateTo
    /\ filters.priority # "" => row.priority = filters.priority

\* order('created_at', {ascending: true})
RECURSIVE OldestFirst(_)
OldestFirst(ids) ==
    IF ids = {} THEN <<>>
    ELSE LET oldest == CHOOSE x \in ids : \A y \in ids : x <= y
         IN  <<oldest>> \o OldestFirst(ids \ {oldest})

\* listWorkOrders with the order ascending.
listWorkOrders_OldestFirst(st, filters, limit, dbFail) ==
    IF dbFail THEN [data |-> <<>>, error |-> TRUE]
    ELSE [data |-> Limit(OldestFirst({i \in DOMAIN st : Selected(st[i], filters)}),
                         limit),
          error |-> FALSE]

\* listWorkOrders; the rows it returns are given by their ids
listWorkOrders(st, filters, limit, dbFail) ==
    IF dbFail THEN [data |-> <<>>, error |-> TRUE]
    ELSE [data |-> Limit(NewestFirst({i \in DOMAIN st : Selected(st[i], filters)}),
                         limit),
          error |-> FALSE]

\* The statuses getWorkOrderStats counts as in progress.
InProgressStatuses ==
    {"scanned", "designed", "milling", "sintering", "finishing", "qc"}

\* listWorkOrders({}, 1000)
StatsLimit == 1000

\* getWorkOrderStats: the counts over the rows listWorkOrders returned; the
\* error listWorkOrders returns next to an empty list is not looked at.
getWorkOrderStats(st, dbFail) ==
    LET all == listWorkOrders(st, NoFilters, StatsLimit, dbFail).data
        count(statuses) ==
            Cardinality({k \in 1..Len(all) : st[all[k]].status \in statuses})
    IN  [total      |-> Len(all),
         pending    |-> count({"pending"}),
         inProgress |-> count(InProgressStatuses),
         ready      |-> count({"ready"}),
         completed  |-> count({"seated"})]

\* A caller invokes getWorkOrderStats and keeps what it returned.
StatsCall(dbFail) ==
    /\ resp' = [op |-> "getWorkOrderStats", code |-> 0,
                stats |-> getWorkOrderStats(store, dbFail)]
    /\ UNCHANGED <<store, nextId, req, cmd>>

----------------------------------------------------------------------------
(* HTTP GET routes under /work-orders/ *)

\* The id the path segment 'stats' is when a handler reads it as req.params.id:
\* it is the id of no row.
StatsKey == 0

\* last path segments of GET /work-orders/<segment>: ids and the word stats
GetSegments ==
    [word : {"id"}, id : IdInputs] \cup {[word |-> "stats", id |-> StatsKey]}

\* The GET routes of one path segment below /work-orders, in the order the
\* router registered them.
GetRoutes == <<"/work-orders/:id", "/work-orders/stats">>

\* Express path matching: a parameter matches every segment, a literal only
\* itself.
RouteMatches(route, segment) ==
    CASE route = "/work-orders/:id"   -> TRUE
      [] route = "/work-orders/stats" -> segment.word = "stats"
      [] OTHER -> FALSE

\* The router runs the first registered route that matches; no handler here
\* calls next().
RouteOf(routes, segment) ==
    routes[CHOOSE k \in 1..Len(routes) :
              /\ RouteMatches(routes[k], segment)
              /\ \A j \in 1..(k - 1) : ~RouteMatches(routes[j], segment)]

\* The handler of GET /work-orders/:id
GetWorkOrderHandler(id, dbFail) ==
    LET got == getWorkOrderById(store, id, dbFail)
    IN  resp' = [op |-> "GET /work-orders/:id",
                 code |-> IF got.error THEN 500 ELSE IF ~got.ok THEN 404 ELSE 200]

\* The handler of GET /work-orders/stats
GetStatsHandler(dbFail) ==
    resp' = [op |-> "GET /work-orders/stats", code |-> 200,
             stats |-> getWorkOrderStats(store, dbFail)]

\* The router with the stats route registered ahead of the :id route.
GetWorkOrders_StatsFirst(segment, dbFail) ==
    /\ IF RouteOf(<<"/work-orders/stats", "/work-orders/:id">>, segment)
             = "/work-orders/:id"
       THEN GetWorkOrderHandler(segment.id, dbFail)
       ELSE GetStatsHandler(dbFail)
    /\ UNCHANGED <<store, nextId, req, cmd>>

\* GET /work-orders/<segment>
GetWorkOrders(segment, dbFail) ==
    /\ IF RouteOf(GetRoutes, segment) = "/work-orders/:id"
       THEN GetWorkOrderHandler(segment.id, dbFail)
       ELSE GetStatsHandler(dbFail)
    /\ UNCHANGED <<store, nextId, req, cmd>>

----------------------------------------------------------------------------
(* Command interpreter: AICommandExecutor *)

\* CommandIntent
CommandIntents ==
    {"create_lab_slip", "list_lab_slips", "get_status", "update_status",
     "resend_email", "unknown"}

\* parsed.confidence < 0.6, in hundredths
ConfidenceThreshold == 60

\* params.limit || 50
DefaultLimit == 50

NoParams == [lab_slip_id |-> 0, labSlipId |-> 0, status |-> "", notes |-> ""]

\* The message of a store error (error.message).
StoreErrorMessage == "store error"

Clarification ==
    "I'm not sure I understood that correctly. Could you rephrase your request?"

NoResult ==
    [store |-> <<>>, handler |-> "none", storeCalls |-> 0, success |-> FALSE,
     message |-> "", error |-> "", hasData |-> FALSE]

IdleCmd ==
    [pc |-> "idle", llm |-> "none", intent |-> "", parameters |-> NoParams,
     confidence |-> 0, handler |-> "none", storeCalls |-> 0, success |-> FALSE,
     message |-> "", error |-> "", hasData |-> FALSE, llm2 |-> "none",
     response |-> ""]

\* The try block of parseCommand: the model call, the text block, JSON.parse
\* and the defaults of the three fields.
ParseTry(reply) ==
    IF reply.kind \in {"fail", "nontext", "badjson"}
    THEN [threw |-> TRUE, intent |-> "", parameters |-> NoParams, confidence |-> 0]
    ELSE [threw |-> FALSE,
          intent |-> IF reply.intent # "" THEN reply.intent ELSE "unknown",
          parameters |-> reply.parameters,
          confidence |-> reply.confidence]

\* parseCommand without its catch block.
parseCommand_Rethrow(reply) == ParseTry(reply)

\* parseCommand
parseCommand(reply) ==
    IF ParseTry(reply).threw
    THEN [threw |-> FALSE, intent |-> "unknown", parameters |-> NoParams,
          confidence |-> 0]
    ELSE ParseTry(reply)

\* The confidence gate with the boundary on the wrong side.
LowConfidence_Inclusive(confidence) == confidence <= ConfidenceThreshold

\* if (parsed.confidence < 0.6)
LowConfidence(confidence) == confidence < ConfidenceThreshold

\* handleListLabSlips
handleListLabSlips(st, params, dbFail) ==
    LET listed == listWorkOrders(st, [NoFilters EXCEPT !.status = OneStatus(params.status)],
                                 DefaultLimit, dbFail)
    IN  IF listed.error
        THEN [NoResult EXCEPT !.store = st, !.handler = "handleListLabSlips",
                 !.storeCalls = 1, !.message = "Failed to fetch lab slips",
                 !.error = StoreErrorMessage]
        ELSE [NoResult EXCEPT !.store = st, !.handler = "handleListLabSlips",
                 !.storeCalls = 1, !.success = TRUE, !.hasData = TRUE,
                 !.message = "Found " \o ToString(Len(listed.data)) \o " lab slip(s)"]

\* handleGetStatus without the check of the lookup's outcome.
handleGetStatus_NoCheck(st, params, dbFail) ==
    IF params.lab_slip_id = 0
    THEN [NoResult EXCEPT !.store = st, !.handler = "handleGetStatus",
             !.message = "Lab slip ID is required",
             !.error = "Missing lab_slip_id parameter"]
    ELSE [NoResult EXCEPT !.store = st, !.handler = "handleGetStatus",
             !.storeCalls = 1, !.success = TRUE, !.hasData = TRUE,
             !.message = "Lab slip status: "]

\* handleGetStatus
handleGetStatus(st, params, dbFail) ==
    LET labSlipId == params.lab_slip_id
        got == getWorkOrderById(st, labSlipId, dbFail)
    IN  IF labSlipId = 0
        THEN [NoResult EXCEPT !.store = st, !.handler = "handleGetStatus",
                 !.message = "Lab slip ID is required",
                 !.error = "Missing lab_slip_id parameter"]
        ELSE IF got.error \/ ~got.ok
        THEN [NoResult EXCEPT !.store = st, !.handler = "handleGetStatus",
                 !.storeCalls = 1, !.message = "Lab slip not found",
                 !.error = IF got.error THEN StoreErrorMessage ELSE "Not found"]
        ELSE [NoResult EXCEPT !.store = st, !.handler = "handleGetStatus",
                 !.storeCalls = 1, !.success = TRUE, !.hasData = TRUE,
                 !.message = "Lab slip status: " \o st[labSlipId].status]

\* handleUpdateStatus
handleUpdateStatus(st, params, getFail, dbFail) ==
    LET labSlipId == IF params.lab_slip_id # 0 THEN params.lab_slip_id
                     ELSE params.labSlipId
        status == params.status
        notes == params.notes
        upd == updateWorkOrderStatus(st, labSlipId, status, notes, getFail, dbFail)
    IN  IF labSlipId = 0 \/ status = ""
        THEN [NoResult EXCEPT !.store = st, !.handler = "handleUpdateStatus",
                 !.message = "Lab slip ID and status are required",
                 !.error = "Missing required parameters"]
        ELSE IF upd.error \/ ~upd.ok
        THEN [NoResult EXCEPT !.store = upd.store, !.handler = "handleUpdateStatus",
                 !.storeCalls = IF notes # "" THEN 2 ELSE 1,
                 !.message = "Failed to update lab slip status",
                 !.error = IF upd.error THEN StoreErrorMessage ELSE "Update failed"]
        ELSE [NoResult EXCEPT !.store = upd.store, !.handler = "handleUpdateStatus",
                 !.storeCalls = IF notes # "" THEN 2 ELSE 1,
                 !.success = TRUE, !.hasData = TRUE,
                 !.message = "Lab slip status updated to: " \o status]

\* The switch of executeCommand with the break of the two unsupported intents
\* missing: they run on into the default branch.
executeIntent_FallThrough(st, intent, params, getFail, dbFail) ==
    CASE intent = "list_lab_slips" -> handleListLabSlips(st, params, dbFail)
      [] intent = "get_status"     -> handleGetStatus(st, params, dbFail)
      [] intent = "update_status"  -> handleUpdateStatus(st, params, getFail, dbFail)
      [] OTHER ->
            [NoResult EXCEPT !.store = st, !.handler = "default",
                !.message = "Unknown command",
                !.error = "Could not determine intent"]

\* The switch of executeCommand with the update handler as its default branch.
executeIntent_UpdateByDefault(st, intent, params, getFail, dbFail) ==
    CASE intent = "list_lab_slips" -> handleListLabSlips(st, params, dbFail)
      [] intent = "get_status"     -> handleGetStatus(st, params, dbFail)
      [] intent = "create_lab_slip" ->
            [NoResult EXCEPT !.store = st, !.handler = "create_lab_slip",
                !.message = "Lab slip creation requires structured data. Please use the API endpoint.",
                !.error = "Not supported via natural language"]
      [] intent = "resend_email" ->
            [NoResult EXCEPT !.store = st, !.handler = "resend_email",
                !.message = "Email resending is not yet implemented",
                !.error = "Feature pending"]
      [] OTHER -> handleUpdateStatus(st, params, getFail, dbFail)

\* The switch of executeCommand
executeIntent(st, intent, params, getFail, dbFail) ==
    CASE intent = "list_lab_slips" -> handleListLabSlips(st, params, dbFail)
      [] intent = "get_status"     -> handleGetStatus(st, params, dbFail)
      [] intent = "update_status"  -> handleUpdateStatus(st, params, getFail, dbFail)
      [] intent = "create_lab_slip" ->
            [NoResult EXCEPT !.store = st, !.handler = "create_lab_slip",
                !.message = "Lab slip creation requires structured data. Please use the API endpoint.",
                !.error = "Not supported via natural language"]
      [] intent = "resend_email" ->
            [NoResult EXCEPT !.store = st, !.handler = "resend_email",
                !.message = "Email resending is not yet implemented",
                !.error = "Feature pending"]
      [] OTHER ->
            [NoResult EXCEPT !.store = st, !.handler = "default",
                !.message = "Unknown command",
                !.error = "Could not determine intent"]

\* The reply of the second model call, trimmed.
GeneratedText == "generated reply"

\* The try block of generateResponse.
GenerateTry(message, reply) ==
    IF reply = "fail" THEN [threw |-> TRUE, text |-> ""]
    ELSE IF reply = "text" THEN [threw |-> FALSE, text |-> GeneratedText]
    ELSE [threw |-> FALSE, text |-> message]

\* generateResponse without its catch block.
generateResponse_Rethrow(message, reply) == GenerateTry(message, reply)

\* generateResponse
generateResponse(message, reply) ==
    IF GenerateTry(message, reply).threw
    THEN [threw |-> FALSE, text |-> message]
    ELSE GenerateTry(message, reply)

\* The catch block of executeCommand.
CaughtCmd(c) ==
    [c EXCEPT !.pc = "done", !.success = FALSE, !.hasData = FALSE,
              !.message = "Error executing command", !.error = "thrown",
              !.response = "Sorry, I encountered an error processing your request."]

\* executeCommand up to the end of parseCommand (the first model call).
CmdParse(reply) ==
    LET parsed == parseCommand(reply)
    IN  /\ cmd.pc = "idle"
        /\ cmd' = IF parsed.threw
                  THEN CaughtCmd([IdleCmd EXCEPT !.llm = reply.kind])
                  ELSE [IdleCmd EXCEPT !.pc = "parsed", !.llm = reply.kind,
                           !.intent = parsed.intent,
                           !.parameters = parsed.parameters,
                           !.confidence = parsed.confidence]
        /\ UNCHANGED <<store, nextId, resp, req>>

\* executeCommand: the confidence gate and the handler of the intent.
CmdDispatch(getFail, dbFail) ==
    LET r == executeIntent(store, cmd.intent, cmd.parameters, getFail, dbFail)
    IN  /\ cmd.pc = "parsed"
        /\ IF LowConfidence(cmd.confidence)
           THEN /\ cmd' = [cmd EXCEPT !.pc = "done",
                              !.message = "Could not understand command",
                              !.error = "Low confidence in command interpretation",
                              !.response = Clarification]
                /\ UNCHANGED store
           ELSE /\ cmd' = [cmd EXCEPT !.pc = "dispatched", !.handler = r.handler,
                              !.storeCalls = r.storeCalls, !.success = r.success,
                              !.message = r.message, !.error = r.error,
                              !.hasData = r.hasData]
                /\ store' = r.store
        /\ UNCHANGED <<nextId, resp, req>>

\* executeCommand: generateResponse (the second model call) and the return.
CmdRespond(reply) ==
    LET g == generateResponse(cmd.message, reply)
    IN  /\ cmd.pc = "dispatched"
        /\ cmd' = IF g.threw
                  THEN CaughtCmd([cmd EXCEPT !.llm2 = reply])
                  ELSE [cmd EXCEPT !.pc = "done", !.llm2 = reply, !.response = g.text]
        /\ UNCHANGED <<store, nextId, resp, req>>

\* POST /command: executeCommand returned, the endpoint answers with
\* res.status(result.success ? 200 : 400); the next command may come.
CmdReturn ==
    /\ cmd.pc = "done"
    /\ cmd' = IdleCmd
    /\ resp' = [op |-> "POST /command", code |-> IF cmd.success THEN 200 ELSE 400]
    /\ UNCHANGED <<store, nextId, req>>

----------------------------------------------------------------------------
(* Specification of the routes handled one request at a time *)

Init ==
    /\ store = <<>>
    /\ nextId = 1
    /\ resp = NoResp
    /\ req = [c \in Clients |-> IdleReq]
    /\ cmd = IdleCmd

Post == \E body \in PostBodies, lf, if \in BOOLEAN : PostWorkOrders(body, lf, if)
Patch == \E id \in IdInputs, s \in StatusInputs, n \in NotesInputs, df \in BOOLEAN :
            \E gf \in GetFails(n) : PatchStatus(id, s, n, gf, df)
Delete == \E id \in IdInputs, df \in BOOLEAN : DeleteWorkOrders(id, df)
Get == \E segment \in GetSegments, df \in BOOLEAN : GetWorkOrders(segment, df)
Stats == \E df \in BOOLEAN : StatsCall(df)

Next == Post \/ Patch \/ Delete \/ Get \/ Stats

Spec == Init /\ [][Next]_vars

----------------------------------------------------------------------------
(* Specification of concurrent POST /work-orders requests *)

Receive == \E c \in Clients, body \in PostBodies : PostReceive(c, body)
Check == \E c \in Clients, lf \in BOOLEAN : PostCheck(c, lf)
Insert == \E c \in Clients, if \in BOOLEAN : PostInsert(c, if)
Reply == \E c \in Clients : PostReply(c)

NextCreate == Receive \/ Check \/ Insert \/ Reply \/ Delete

SpecCreate == Init /\ [][NextCreate]_vars

----------------------------------------------------------------------------
(* Specification of the command interpreter next to a client creating orders *)

\* confidences the model reports, in hundredths
Confidences == {0, 59, 60}

\* intents the model reports: the closed set, none, and one outside the set
IntentInputs == CommandIntents \cup {"", "delete_lab_slip"}

\* parameters the model extracts
ParamInputs ==
    {NoParams}
    \cup {[NoParams EXCEPT !.lab_slip_id = i, !.status = s] :
             i \in {1, MaxOrders + 1}, s \in {"", "seated", "milling"}}
    \cup {[NoParams EXCEPT !.labSlipId = 1, !.status = "seated"],
          [NoParams EXCEPT !.status = "seated"],
          [NoParams EXCEPT !.lab_slip_id = 1, !.status = "milling", !.notes = "n1"]}

NoReply == [kind |-> "fail", intent |-> "", parameters |-> NoParams, confidence |-> 0]

\* replies of the first model call
ParseReplies ==
    {[NoReply EXCEPT !.kind = k] : k \in {"fail", "nontext", "badjson"}}
    \cup {[kind |-> "json", intent |-> i, parameters |-> p, confidence |-> c] :
             i \in IntentInputs, p \in ParamInputs, c \in Confidences}

\* replies of the second model call
ResponseReplies == {"text", "nontext", "fail"}

PostOne == \E lf, if \in BOOLEAN :
              PostWorkOrders(ValidBody(101, <<"D", "2", "7", "4", "0">>), lf, if)
Parse == \E reply \in ParseReplies : CmdParse(reply)
Dispatch == \E gf, df \in BOOLEAN : CmdDispatch(gf, df)
Respond == \E reply \in ResponseReplies : CmdRespond(reply)

NextCmd == PostOne \/ Parse \/ Dispatch \/ Respond \/ CmdReturn

SpecCmd == Init /\ [][NextCmd]_vars

----------------------------------------------------------------------------
(* POST /work-orders/:id/pdf *)

\* outputPath: `${outputDir}/work-order-${workOrder.id}.html`
OutputPath(id) == "./output/work-order-" \o ToString(id) \o ".html"

\* The parameters of the update that records the artifact.
PdfUpdate(id) ==
    [id |-> id, status |-> Undefined, labNotes |-> Undefined,
     completedAt |-> Undefined, pdfStoragePath |-> OutputPath(id)]

\* The route recording the artifact path ahead of the render.
PostPdf_RecordFirst(id, getFail, rendered, dbFail) ==
    LET got == getWorkOrderById(store, id, getFail)
        upd == updateWorkOrder(store, PdfUpdate(id), FALSE, dbFail)
    IN  /\ IF got.error \/ ~got.ok
           THEN /\ resp' = [op |-> "POST /work-orders/:id/pdf", code |-> 404]
                /\ UNCHANGED store
           ELSE /\ resp' = [op |-> "POST /work-orders/:id/pdf",
                            code |-> IF rendered THEN 200 ELSE 500]
                /\ store' = upd.store
        /\ UNCHANGED <<nextId, req, cmd>>

\* POST /work-orders/:id/pdf; rendered is the outcome of generatePDF (a result
\* without success and an exception are both answered 500), the outcome of
\* the update is not looked at.
PostPdf(id, getFail, rendered, dbFail) ==
    LET got == getWorkOrderById(store, id, getFail)
        upd == updateWorkOrder(store, PdfUpdate(id), FALSE, dbFail)
    IN  /\ IF got.error \/ ~got.ok
           THEN /\ resp' = [op |-> "POST /work-orders/:id/pdf", code |-> 404]
                /\ UNCHANGED store
           ELSE IF ~rendered
           THEN /\ resp' = [op |-> "POST /work-orders/:id/pdf", code |-> 500]
                /\ UNCHANGED store
           ELSE /\ resp' = [op |-> "POST /work-orders/:id/pdf", code |-> 200]
                /\ store' = upd.store
        /\ UNCHANGED <<nextId, req, cmd>>

\* status updates of work orders moving through production
PatchProgress ==
    \E id \in IdInputs, s \in {"milling", "seated"}, df \in BOOLEAN :
        PatchStatus(id, s, "", FALSE, df)

Pdf == \E id \in IdInputs, gf, rendered, df \in BOOLEAN : PostPdf(id, gf, rendered, df)

NextPdf == PostOne \/ PatchProgress \/ Pdf

SpecPdf == Init /\ [][NextPdf]_vars

----------------------------------------------------------------------------
(* Specification of the calls of listWorkOrders *)

\* The i-th work order of a practice's table: created through POST
\* /work-orders for some patient, assignee and priority, then moved on by
\* status updates.
ListRow(i) ==
    [NewRow([openDentalProcedureId |-> 100 + i,
             openDentalPatientId |-> IF i <= 2 THEN 7 ELSE 8,
             assignedTo |-> IF i % 2 = 0 THEN "Ana" ELSE "Lab Tech",
             priority |-> IF i % 3 = 0 THEN "asap" ELSE "routine",
             status |-> "pending"], i)
     EXCEPT !.status = CASE i % 3 = 1 -> "pending"
                         [] i % 3 = 2 -> "milling"
                         [] OTHER -> "seated",
            !.completed_at = IF i % 3 = 0 THEN Stamp ELSE Null]

\* tables of up to MaxOrders + 2 work orders, the second one deleted or not
ListStores ==
    {[i \in 1..n |-> ListRow(i)] : n \in 0..(MaxOrders + 2)}
    \cup {[i \in (1..n) \ {2} |-> ListRow(i)] : n \in 2..(MaxOrders + 2)}

\* filters a caller supplies
FilterInputs ==
    [status : {NoFilters.status, OneStatus("pending"), OneStatus("seated"),
               [kind |-> "many", one |-> "", many |-> {"milling", "seated"}],
               [kind |-> "many", one |-> "", many |-> {}]},
     assignedTo : {"", "Ana"},
     patientId : {0, 7},
     procedureId : {0, 102},
     dateFrom : {0, 2},
     dateTo : {0, 3},
     priority : {"", "asap"}]

\* limits a caller supplies; without one the limit is 50
LimitInputs == {1, 2, DefaultLimit}

InitList ==
    /\ store \in ListStores
    /\ nextId = 1
    /\ resp \in {[op |-> "call listWorkOrders", code |-> 0, filters |-> f,
                   limit |-> n] : f \in FilterInputs, n \in LimitInputs}
    /\ req = [c \in Clients |-> IdleReq]
    /\ cmd = IdleCmd

\* queries.listWorkOrders(filters, limit)
ListCall(dbFail) ==
    LET listed == listWorkOrders(store, resp.filters, resp.limit, dbFail)
    IN  /\ resp.op = "call listWorkOrders"
        /\ resp' = [op |-> "listWorkOrders", code |-> 0, filters |-> resp.filters,
                    limit |-> resp.limit, data |-> listed.data,
                    error |-> listed.error]
        /\ UNCHANGED <<store, nextId, req, cmd>>

NextList == \E df \in BOOLEAN : ListCall(df)

SpecList == InitList /\ [][NextList]_vars

----------------------------------------------------------------------------
(* Specification of the calls of CrownDetectionService *)

\* n blanks
Pad(n) == [i \in 1..n |-> " "]

\* procedure codes a caller supplies: the crown codes and others, in either
\* case, with blanks around them, with a blank inside, and the empty code
CodeInputs ==
    {Pad(l) \o <<letter>> \o digits \o Pad(r) :
        l \in 0..MaxPad, r \in 0..MaxPad, letter \in {"D", "d", "E", "e"},
        digits \in {<<"2", "7", "4", "0">>, <<"2", "7", "5", "0">>, <<"2", "7", "5", "1">>, <<"2", "7", "5", "2">>, <<"0", "1", "2", "0">>, <<"1", "1", "1", "0">>, <<"2", "3", "9", "1">>, <<"2", "7", "4">>, <<"2", "7", "4", "0", "0">>}}
    \cup {<<>>, <<"D", " ", "2", "7", "4", "0">>}

\* notes a caller supplies, each with whether it holds an urgent keyword in
\* either case
PriorityNotes ==
    {[text |-> <<>>, keyword |-> FALSE],
     [text |-> <<"r", "u", "s", "h">>, keyword |-> TRUE],
     [text |-> <<"R", "U", "S", "H">>, keyword |-> TRUE],
     [text |-> <<"s", "a", "m", "e", " ", "d", "a", "y">>, keyword |-> TRUE],
     [text |-> <<"u", "r", "g", "e", "n", "t">>, keyword |-> TRUE],
     [text |-> <<"a", "s", "a", "p">>, keyword |-> TRUE],
     [text |-> <<"e", "m", "e", "r", "g", "e", "n", "c", "y">>, keyword |-> TRUE],
     [text |-> <<"s", "u", "r", "e">>, keyword |-> FALSE],
     [text |-> <<"s", "a", "m", "e">>, keyword |-> FALSE]}

\* values of new Date().getTime(), in milliseconds
NowInputs == {0, 43200000}

\* appointment dates a caller supplies: none, or one at an offset from now
AppointmentInputs(now) ==
    {[given |-> FALSE, time |-> 0]}
    \cup {[given |-> TRUE, time |-> now + d] :
             d \in {-DayMs, 0, 1, DayMs - 1, DayMs, DayMs + 1, 2 * DayMs,
                    3 * DayMs, 3 * DayMs + 1, 4 * DayMs}}

\* ProcedureDetectionConfig.defaultPriority
DefaultPriorities == {"routine", "urgent"}

DetectCalls ==
    {[op |-> "call detectCrownProcedure", code |-> 0, procedureCode |-> c] :
        c \in CodeInputs}

PriorityCalls ==
    UNION {{[op |-> "call determinePriority", code |-> 0, now |-> now,
             appointmentDate |-> a, notes |-> n, defaultPriority |-> d] :
               a \in AppointmentInputs(now), n \in PriorityNotes,
               d \in DefaultPriorities} : now \in NowInputs}

InitDetect ==
    /\ store = <<>>
    /\ nextId = 1
    /\ resp \in DetectCalls \cup PriorityCalls
    /\ req = [c \in Clients |-> IdleReq]
    /\ cmd = IdleCmd

\* detection.detectCrownProcedure(procedureCode)
DetectCall ==
    /\ resp.op = "call detectCrownProcedure"
    /\ resp' = [op |-> "detectCrownProcedure", code |-> 0,
                procedureCode |-> resp.procedureCode,
                result |-> detectCrownProcedure(resp.procedureCode)]
    /\ UNCHANGED <<store, nextId, req, cmd>>

\* detection.determinePriority(procedureDate, appointmentDate, notes)
PriorityCall ==
    /\ resp.op = "call determinePriority"
    /\ resp' = [op |-> "determinePriority", code |-> 0, now |-> resp.now,
                appointmentDate |-> resp.appointmentDate, notes |-> resp.notes,
                defaultPriority |-> resp.defaultPriority,
                result |-> determinePriority(resp.now, resp.appointmentDate,
                                             resp.notes.text, resp.defaultPriority)]
    /\ UNCHANGED <<store, nextId, req, cmd>>

NextDetect == DetectCall \/ PriorityCall

SpecDetect == InitDetect /\ [][NextDetect]_vars

----------------------------------------------------------------------------
(* Status history and completion timestamp *)

\* C1: every successful updateStatus (PATCH /work-orders/:id/status answered
\* 200) leaves the work order's status history exactly one entry longer.
C1_HistoryGrowsByOne ==
    [][resp' = [op |-> "PATCH", code |-> 200] =>
          \A id \in IdInputs, s \in StatusInputs, n \in NotesInputs, df \in BOOLEAN :
             \A gf \in GetFails(n) : PatchStatus(id, s, n, gf, df)
             => /\ id \in DOMAIN store'
                /\ Len(statusHistory(store'[id])) = Len(statusHistory(store[id])) + 1]_vars

\* C2: in every reachable state a work order's completedAt is non-null exactly
\* when its status is seated.
C2_CompletedIffSeated ==
    \A i \in DOMAIN store :
        (store[i].completed_at # Null) <=> (store[i].status = "seated")

\* C3: a successful updateStatus to seated leaves completedAt non-null; a
\* successful updateStatus to any other status leaves an unset completedAt unset.
C3_SeatedStampsCompletion ==
    [][resp' = [op |-> "PATCH", code |-> 200] =>
          \A id \in IdInputs, s \in StatusInputs, n \in NotesInputs, df \in BOOLEAN :
             \A gf \in GetFails(n) : PatchStatus(id, s, n, gf, df)
             => IF s = "seated"
                THEN store'[id].completed_at # Null
                ELSE store[id].completed_at = Null => store'[id].completed_at = Null]_vars

\* A status update was answered 200 with one work order seated and stamped and
\* another one moved to milling with no completion timestamp.
C3_Witness ==
    /\ resp = [op |-> "PATCH", code |-> 200]
    /\ \E i \in DOMAIN store :
          store[i].status = "seated" /\ store[i].completed_at = Stamp
    /\ \E i \in DOMAIN store :
          store[i].status = "milling" /\ store[i].completed_at = Null

----------------------------------------------------------------------------
(* Duplicate prevention *)

\* C4: with creates handled one at a time, at most one work order exists per
\* external procedure id (a POST for a procedure that has one is refused).
C4_OnePerProcedure ==
    \A i, j \in DOMAIN store :
        store[i].opendental_procedure_id = store[j].opendental_procedure_id => i = j

\* C5: check and insert are separate store calls and nothing guards the insert:
\* a request that passed the check inserts its row whenever the insert call
\* itself succeeds, whatever rows the table holds by then.
C5_InsertUnguarded ==
    [][\A c \in Clients :
          PostInsert(c, FALSE)
          => /\ req'[c].code = 201
             /\ nextId \in DOMAIN store'
             /\ store'[nextId].opendental_procedure_id = req[c].procedureId]_vars

\* Two requests for one procedure both found no row and both inserted one.
C5_Witness ==
    \E c, d \in Clients :
        /\ c # d
        /\ req[c].procedureId = req[d].procedureId
        /\ req[c].pc = "done" /\ req[c].code = 201 /\ req[c].lookup = "absent"
        /\ req[d].pc = "done" /\ req[d].code = 201 /\ req[d].lookup = "absent"
        /\ \E i, j \in DOMAIN store :
              /\ i # j
              /\ store[i].opendental_procedure_id = req[c].procedureId
              /\ store[j].opendental_procedure_id = req[c].procedureId

----------------------------------------------------------------------------
(* Command interpreter *)

\* The step of executeCommand that applies the confidence gate and the switch.
DispatchStep == cmd.pc = "parsed" /\ cmd'.pc # "parsed"

\* C6: executeCommand dispatches only when the parsed confidence is at least
\* 0.6: below it no store operation is invoked, the store is unchanged and the
\* clarification response is returned; at 0.6 and above the handler of the
\* intent runs.
C6_ConfidenceGate ==
    [][DispatchStep =>
          IF cmd.confidence < 60
          THEN /\ cmd'.pc = "done"
               /\ cmd'.handler = "none"
               /\ cmd'.storeCalls = 0
               /\ store' = store
               /\ ~cmd'.success
               /\ cmd'.response = Clarification
          ELSE /\ cmd'.pc = "dispatched"
               /\ cmd'.handler =
                     CASE cmd.intent = "list_lab_slips" -> "handleListLabSlips"
                       [] cmd.intent = "get_status" -> "handleGetStatus"
                       [] cmd.intent = "update_status" -> "handleUpdateStatus"
                       [] cmd.intent = "create_lab_slip" -> "create_lab_slip"
                       [] cmd.intent = "resend_email" -> "resend_email"
                       [] OTHER -> "default"
               /\ (cmd.intent = "list_lab_slips" => cmd'.storeCalls = 1)]_vars

\* A command parsed with confidence exactly 0.6 reached the store.
C6_Witness ==
    /\ cmd.pc = "dispatched"
    /\ cmd.confidence = 60
    /\ cmd.handler = "handleUpdateStatus"
    /\ cmd.storeCalls = 1
    /\ cmd.success

\* C7: when the first model call fails, returns a non-text block or returns
\* text that is no JSON, parseCommand returns intent unknown, confidence 0 and
\* empty parameters, and executeCommand answers with the clarification response
\* without having invoked a store operation.
C7_ParseFailsSoft ==
    (cmd.llm \in {"fail", "nontext", "badjson"})
    => /\ cmd.pc \in {"parsed", "done"}
       /\ cmd.intent = "unknown"
       /\ cmd.confidence = 0
       /\ cmd.parameters = NoParams
       /\ cmd.storeCalls = 0
       /\ cmd.handler = "none"
       /\ cmd.pc = "done" => /\ cmd.response = Clarification
                             /\ cmd.message = "Could not understand command"
                             /\ ~cmd.success

\* A command whose model reply was no JSON was answered with the clarification.
C7_Witness ==
    /\ cmd.pc = "done"
    /\ cmd.llm = "badjson"
    /\ cmd.response = Clarification
    /\ DOMAIN store # {}

C9_ResponseFallback ==
    [][cmd.pc = "dispatched" /\ cmd'.pc # "dispatched"
          => /\ cmd'.pc = "done"
             /\ cmd'.success = cmd.success
             /\ cmd'.message = cmd.message
             /\ cmd'.error = cmd.error
             /\ cmd'.hasData = cmd.hasData
             /\ store' = store
             /\ cmd'.llm2 = "fail" => cmd'.response = cmd.message]_vars

\* A status update was applied, the second model call failed, and the command
\* returned the successful result with its raw message.
C9_Witness ==
    /\ cmd.pc = "done"
    /\ cmd.llm2 = "fail"
    /\ cmd.handler = "handleUpdateStatus"
    /\ cmd.success
    /\ cmd.response = "Lab slip status updated to: seated"
    /\ cmd.parameters.lab_slip_id \in DOMAIN store
    /\ store[cmd.parameters.lab_slip_id].status = "seated"

\* C10: a get_status command with confidence at least 0.6 whose lab slip id is
\* not in the store gets success false with the not-found message, and the
\* store is unchanged.
C10_GetStatusNotFound ==
    [][DispatchStep /\ cmd.confidence >= 60 /\ cmd.intent = "get_status"
        /\ cmd.parameters.lab_slip_id # 0
        /\ cmd.parameters.lab_slip_id \notin DOMAIN store
          => /\ ~cmd'.success
             /\ cmd'.message = "Lab slip not found"
             /\ ~cmd'.hasData
             /\ store' = store]_vars

\* A get_status command for an id the store does not hold was dispatched while
\* the store holds other work orders.
C10_Witness ==
    /\ cmd.pc \in {"dispatched", "done"}
    /\ cmd.intent = "get_status"
    /\ cmd.parameters.lab_slip_id # 0
    /\ cmd.parameters.lab_slip_id \notin DOMAIN store
    /\ cmd.message = "Lab slip not found"
    /\ DOMAIN store # {}

\* C11: within one executeCommand the store is written only by the dispatch
\* step, and only for intent update_status parsed with confidence at least 0.6:
\* the parse step, the response step, the return, a low-confidence dispatch and
\* the dispatch of every other intent leave the store as it is.
C11_OnlyUpdateStatusWrites ==
    [][cmd' # cmd /\ store' # store
          => /\ DispatchStep
             /\ cmd.intent = "update_status"
             /\ cmd.confidence >= 60
             /\ cmd'.handler = "handleUpdateStatus"]_vars

\* An update_status command changed the status of a stored work order in its
\* dispatch step.
C11_Witness ==
    /\ cmd.pc = "dispatched"
    /\ cmd.intent = "update_status"
    /\ cmd.handler = "handleUpdateStatus"
    /\ cmd.success
    /\ cmd.parameters.lab_slip_id \in DOMAIN store
    /\ store[cmd.parameters.lab_slip_id].status = "milling"

----------------------------------------------------------------------------
(* Statistics *)

\* C12: whatever the store holds, getStats counts pending, inProgress, ready
\* and completed over status sets that are pairwise disjoint, and its total is
\* pending + inProgress + ready + completed + the number of stored work orders
\* whose status is cancelled or on_hold (here for a call whose store read
\* succeeds).
C12_StatsPartition ==
    [][resp'.op = "getWorkOrderStats" /\ StatsCall(FALSE)
          => /\ InProgressStatuses \cap {"pending", "ready", "seated"} = {}
             /\ resp'.stats.total =
                   resp'.stats.pending + resp'.stats.inProgress
                   + resp'.stats.ready + resp'.stats.completed
                   + Cardinality({i \in DOMAIN store :
                                     store[i].status \in {"cancelled", "on_hold"}})]_vars

\* C13: after any sequence of creates, status updates and deletes, what
\* getStats returns is the count over the work orders in the store at the time
\* of the call: total is their number and each bucket the number of them with a
\* status of that bucket.
C13_StatsOverLiveSet ==
    resp.op = "getWorkOrderStats"
    => /\ resp.stats.total = Cardinality(DOMAIN store)
       /\ resp.stats.pending =
             Cardinality({i \in DOMAIN store : store[i].status = "pending"})
       /\ resp.stats.inProgress =
             Cardinality({i \in DOMAIN store : store[i].status \in InProgressStatuses})
       /\ resp.stats.ready =
             Cardinality({i \in DOMAIN store : store[i].status = "ready"})
       /\ resp.stats.completed =
             Cardinality({i \in DOMAIN store : store[i].status = "seated"})

----------------------------------------------------------------------------
(* Responses of the routes *)

\* C14: a GET /work-orders/stats request is answered by the statistics handler
\* with 200 and the aggregation; it is never handled as the lookup of a work
\* order whose id is 'stats'.
C14_StatsRouteAnswers ==
    [][resp'.op \in {"GET /work-orders/:id", "GET /work-orders/stats"}
          => \A df \in BOOLEAN :
                GetWorkOrders([word |-> "stats", id |-> StatsKey], df)
                => /\ resp'.op = "GET /work-orders/stats"
                   /\ resp'.code = 200]_vars

\* C15: PATCH /work-orders/:id/status for an id that is not in the store
\* answers 404 (not 200, not 500) and leaves the store unchanged; a request
\* without status answers 400 and the store is unchanged.  (The store itself
\* works: no call fails for a reason of its own.)
C15_PatchNotFound ==
    [][resp'.op = "PATCH"
          => \A id \in IdInputs, s \in StatusInputs :
                PatchStatus(id, s, "", FALSE, FALSE)
                => IF s = ""
                   THEN resp'.code = 400 /\ store' = store
                   ELSE id \notin DOMAIN store
                        => resp'.code = 404 /\ store' = store]_vars

\* C16: GET /work-orders/:id answers 404 when no work order with that id is
\* stored and 200 when one is; the store is unchanged in both cases.  (The
\* store itself works.)
C16_GetByIdCodes ==
    [][resp'.op = "GET /work-orders/:id"
          => \A id \in IdInputs :
                GetWorkOrders([word |-> "id", id |-> id], FALSE)
                => /\ store' = store
                   /\ resp'.code = IF id \in DOMAIN store THEN 200 ELSE 404]_vars

\* C17: DELETE /work-orders/:id answers 404 and leaves the store unchanged when
\* no work order with that id is stored, and answers 200 and removes exactly
\* that record when one is.  (The store itself works.)
C17_DeleteCodes ==
    [][resp'.op = "DELETE"
          => \A id \in IdInputs :
                DeleteWorkOrders(id, FALSE)
                => IF id \in DOMAIN store
                   THEN /\ resp'.code = 200
                        /\ store' = [i \in DOMAIN store \ {id} |-> store[i]]
                   ELSE /\ resp'.code = 404
                        /\ store' = store]_vars

----------------------------------------------------------------------------
(* Creation *)

\* C18: a POST /work-orders whose body lacks a required field (external patient
\* id, external procedure id, patient, procedure) or carries procedure code
\* D0120 is answered 400 by the handler's first step: no duplicate lookup is
\* made, the store is unchanged, and the request never reaches the insert.
C18_RejectedBeforeStore ==
    /\ [](\A c \in Clients :
            req[c].code = 400 => req[c].pc = "done" /\ req[c].lookup = "none")
    /\ [][\A c \in Clients :
            req[c].pc = "idle" /\ req'[c].pc # "idle"
            => \A body \in PostBodies :
                  /\ PostReceive(c, body)
                  /\ \/ body.openDentalPatientId = 0
                     \/ body.openDentalProcedureId = 0
                     \/ ~body.patient
                     \/ ~body.procedure
                     \/ body.code = <<"D", "0", "1", "2", "0">>
                  => /\ req'[c].pc = "done"
                     /\ req'[c].code = 400
                     /\ req'[c].lookup = "none"
                     /\ store' = store
                     /\ nextId' = nextId]_vars

\* A request was rejected with 400 without a lookup while the store holds a
\* work order and another request is past its duplicate check.
C18_Witness ==
    \E c, d \in Clients :
        /\ req[c].pc = "done" /\ req[c].code = 400 /\ req[c].lookup = "none"
        /\ req[d].pc = "insert"
        /\ DOMAIN store # {}

\* C19: every work order inserted through POST /work-orders has status pending
\* and a null completed_at right after the insert, whatever the body holds (a
\* status in the body included).
C19_CreatedPending ==
    [][resp' = [op |-> "POST", code |-> 201]
          => /\ DOMAIN store' \ DOMAIN store # {}
             /\ \A i \in DOMAIN store' \ DOMAIN store :
                   /\ store'[i].status = "pending"
                   /\ store'[i].completed_at = Null]_vars

\* A POST was answered 201 and its work order is pending with no completion
\* timestamp, next to an older one that was seated meanwhile.
C19_Witness ==
    /\ resp = [op |-> "POST", code |-> 201]
    /\ (nextId - 1) \in DOMAIN store
    /\ store[nextId - 1].status = "pending"
    /\ store[nextId - 1].completed_at = Null
    /\ \E i \in DOMAIN store : store[i].status = "seated"

\* C20: in every reachable state the status of every stored work order is one
\* of the eleven statuses of WorkOrderStatus, whatever status a PATCH body or a
\* parsed update_status command supplies.
C20_StatusInEleven ==
    \A i \in DOMAIN store : store[i].status \in CrownStatuses

----------------------------------------------------------------------------
(* Procedure classifier and priority *)

\* C21: detectCrownProcedure returns isCrown true, confidence 1 and the
\* material of the code (D2740 Zirconia; D2750, D2751, D2752 Porcelain Fused
\* to Metal) for every code that is one of the four crown codes with blanks
\* around it and in either case, and isCrown false, confidence 0 and no
\* material for every other code.
C21_ClassifyCrownCodes ==
    resp.op = "detectCrownProcedure"
    => LET c == resp.procedureCode
           Is(k) == \E l, r \in 0..Len(c) :
                       \E v \in {k, [k EXCEPT ![1] = "d"]} :
                          c = Pad(l) \o v \o Pad(r)
       IN  IF \E k \in CROWN_PROCEDURE_CODES : Is(k)
           THEN /\ resp.result.isCrown
                /\ resp.result.confidence = 1
                /\ resp.result.recommendedMaterial =
                      IF Is(<<"D", "2", "7", "4", "0">>) THEN "Zirconia"
                      ELSE "Porcelain Fused to Metal"
           ELSE /\ ~resp.result.isCrown
                /\ resp.result.confidence = 0
                /\ resp.result.recommendedMaterial = ""

\* A lower-case crown code with a blank on either side was classified as a
\* crown.
C21_Witness ==
    /\ resp.op = "detectCrownProcedure"
    /\ resp.procedureCode = <<" ", "d", "2", "7", "5", "1", " ">>
    /\ resp.result.isCrown
    /\ resp.result.recommendedMaterial = "Porcelain Fused to Metal"

\* C22: determinePriority returns the keyword result (asap) whenever the notes
\* hold an urgent keyword, whatever the dates; otherwise, with d the number of
\* whole days (rounded up) from now to the appointment, asap when d <= 1,
\* urgent when 1 < d <= 3, and the configured default when d > 3 or no
\* appointment date is given.
C22_PriorityRule ==
    resp.op = "determinePriority"
    => LET diff == resp.appointmentDate.time - resp.now
       IN  resp.result =
              IF resp.notes.keyword THEN "asap"
              ELSE IF ~resp.appointmentDate.given THEN resp.defaultPriority
              ELSE IF diff <= DayMs THEN "asap"
              ELSE IF diff <= 3 * DayMs THEN "urgent"
              ELSE resp.defaultPriority

\* An appointment one millisecond more than a day away, with notes that hold
\* no keyword, was given priority urgent under the default routine.
C22_Witness ==
    /\ resp.op = "determinePriority"
    /\ ~resp.notes.keyword
    /\ resp.appointmentDate.given
    /\ resp.appointmentDate.time - resp.now = DayMs + 1
    /\ resp.defaultPriority = "routine"
    /\ resp.result = "urgent"

----------------------------------------------------------------------------
(* POST /command *)

\* C23: a command whose parse was unparsable or of confidence below 0.6, which
\* executeCommand answers with the request to rephrase, is answered by POST
\* /command with a successful status (neither 4xx nor 5xx).
C23_RephraseIsNoHttpError ==
    [][cmd.pc = "done" /\ cmd'.pc = "idle" /\ cmd.response = Clarification
          => /\ resp'.op = "POST /command"
             /\ resp'.code >= 200
             /\ resp'.code < 400]_vars

----------------------------------------------------------------------------
(* Document artifact *)

\* C24: POST /work-orders/:id/pdf records the artifact location only after a
\* successful render: answered 404 or 500 the store is unchanged, answered 200
\* no work order changes in anything but its artifact path (status,
\* completed_at, payload and references are as before).
C24_PdfFrame ==
    [][resp'.op = "POST /work-orders/:id/pdf"
          => /\ resp'.code \in {200, 404, 500}
             /\ resp'.code \in {404, 500} => store' = store
             /\ resp'.code = 200
                => /\ DOMAIN store' = DOMAIN store
                   /\ \A i \in DOMAIN store :
                         [store'[i] EXCEPT !.pdf_storage_path =
                                              store[i].pdf_storage_path] = store[i]]_vars

\* A render was answered 200 and the seated work order carries its artifact
\* path next to its status and completion timestamp.
C24_Witness ==
    /\ resp = [op |-> "POST /work-orders/:id/pdf", code |-> 200]
    /\ \E i \in DOMAIN store :
          /\ store[i].pdf_storage_path = OutputPath(i)
          /\ store[i].status = "seated"
          /\ store[i].completed_at = Stamp

----------------------------------------------------------------------------
(* Listing *)

\* C25: a list call that succeeds returns exactly the stored work orders that
\* satisfy every supplied filter (one status or a set of statuses, assignee,
\* external patient id, external procedure id, priority, creation-date range),
\* newest created first, cut to the first limit of them.
C25_ListExact ==
    resp.op = "listWorkOrders" /\ ~resp.error
    => LET f == resp.filters
           data == resp.data
           Matching ==
              {i \in DOMAIN store :
                  /\ f.status.kind = "one" => store[i].status = f.status.one
                  /\ f.status.kind = "many" => store[i].status \in f.status.many
                  /\ f.assignedTo = "" \/ store[i].assignedTo = f.assignedTo
                  /\ f.patientId = 0 \/ store[i].opendental_patient_id = f.patientId
                  /\ f.procedureId = 0 \/ store[i].opendental_procedure_id = f.procedureId
                  /\ f.priority = "" \/ store[i].priority = f.priority
                  /\ f.dateFrom = 0 \/ f.dateFrom <= store[i].created_at
                  /\ f.dateTo = 0 \/ store[i].created_at <= f.dateTo}
           Returned == {data[k] : k \in 1..Len(data)}
       IN  /\ Returned \subseteq Matching
           /\ Len(data) = IF Cardinality(Matching) < resp.limit
                           THEN Cardinality(Matching) ELSE resp.limit
           /\ \A j, k \in 1..Len(data) :
                 j < k => store[data[j]].created_at > store[data[k]].created_at
           /\ \A i \in Matching \ Returned, k \in 1..Len(data) :
                 store[i].created_at < store[data[k]].created_at

\* A list call with a set of statuses, a date range and limit 1 returned the
\* newer of the two matching work orders.
C25_Witness ==
    /\ resp.op = "listWorkOrders"
    /\ ~resp.error
    /\ resp.filters.status.kind = "many"
    /\ resp.filters.dateFrom = 2
    /\ resp.limit = 1
    /\ resp.data = <<3>>
    /\ {2, 3} \subseteq DOMAIN store

----------------------------------------------------------------------------
(* Deletion *)

----------------------------------------------------------------------------
(* Status updates over the whole workflow *)

PatchAny == \E id \in IdInputs, t \in CrownStatuses, df \in BOOLEAN :
                PatchStatus(id, t, "", FALSE, df)

NextTransitions == PostOne \/ PatchAny

SpecTransitions == Init /\ [][NextTransitions]_vars

\* C27: no transition graph is enforced: whatever the status s of an existing
\* work order (every status of the eleven is reached, the final ones and the
\* later ones included), a status update to any status t of the eleven
\* succeeds (the store working) and leaves the work order in status t, all
\* other work orders as they were.
C27_AnyStatusFollowsAny ==
    \A id \in DOMAIN store, t \in CrownStatuses :
        LET r == updateWorkOrderStatus(store, id, t, "", FALSE, FALSE)
        IN  /\ r.ok /\ ~r.error
            /\ r.store[id].status = t
            /\ \A j \in DOMAIN store \ {id} : r.store[j] = store[j]

\* A work order that was seated is pending again while another one, once
\* seated too, is cancelled and then was moved on to milling.
C27_Witness ==
    /\ resp = [op |-> "PATCH", code |-> 200]
    /\ {1, 2} \subseteq DOMAIN store
    /\ store[1].status = "pending" /\ store[1].completed_at = Stamp
    /\ store[2].status = "milling" /\ store[2].completed_at = Stamp

----------------------------------------------------------------------------
(* The duplicate check under store errors *)

\* C28: POST /work-orders inserts only after the lookup by external procedure
\* id has positively returned 'no record': a request whose lookup failed with
\* a store error is not answered 201, it has inserted no work order.
C28_NoInsertAfterFailedLookup ==
    \A c \in Clients : req[c].lookup = "error" => req[c].code # 201

----------------------------------------------------------------------------
(* Status updates that carry lab notes *)

\* notes a caller supplies with a status ("" is missing or empty notes)
LabNotesInputs == {"", "first note", "second note"}

PatchNotes == \E id \in IdInputs, s \in {"milling", "seated"}, n \in LabNotesInputs,
                 df \in BOOLEAN :
                 \E gf \in GetFails(n) : PatchStatus(id, s, n, gf, df)

NextNotes == PostOne \/ PatchNotes

SpecNotes == Init /\ [][NextNotes]_vars

\* C29: a successful updateStatus(id, status, notes) with non-empty notes
\* leaves the work order's lab notes equal to notes and every other field of
\* its payload (assignee, priority) as it was; one without notes leaves the
\* whole payload, the lab notes included, as it was.
C29_NotesOnlyLabNotes ==
    \A id \in DOMAIN store, s \in {"milling", "seated"}, n \in LabNotesInputs :
        \A gf \in GetFails(n) :
            LET r == updateWorkOrderStatus(store, id, s, n, gf, FALSE)
            IN  r.ok => lab_slip_data(r.store[id]) =
                           IF n # ""
                           THEN SpreadLabNotes(lab_slip_data(store[id]), n)
                           ELSE lab_slip_data(store[id])

\* The part of C29 that holds whatever the store does: an update never
\* changes a payload field other than the lab notes, and changes the lab
\* notes only to the notes given.
PayloadFrame ==
    \A id \in DOMAIN store, s \in {"milling", "seated"}, n \in LabNotesInputs :
        \A gf \in GetFails(n) :
            LET r == updateWorkOrderStatus(store, id, s, n, gf, FALSE)
            IN  r.ok => /\ r.store[id].assignedTo = store[id].assignedTo
                        /\ r.store[id].priority = store[id].priority
                        /\ r.store[id].labNotes \in {store[id].labNotes, n} \ {""}

----------------------------------------------------------------------------
(* Open Dental client: the response interceptor's retry loop *)

MAX_RETRIES == 3
INITIAL_RETRY_DELAY == 1000

\* How an attempt can end: a response with a status (2xx resolves, every other
\* status rejects with error.response set), no response at all (status 0: a
\* network error or the 30 s timeout), or an error that carries no config.
Outcomes ==
    {[config |-> TRUE, status |-> st] : st \in {0, 200, 404, 429, 500, 503}}
    \cup {[config |-> FALSE, status |-> 0]}

\* validateStatus of axios: 2xx
IsSuccess(outcome) == outcome.status >= 200 /\ outcome.status < 300

\* Math.pow(2, n)
RECURSIVE Pow2(_)
Pow2(n) == IF n <= 0 THEN 1 ELSE 2 * Pow2(n - 1)

\* shouldRetry for a client that retries every failed attempt.
shouldRetry_AnyFailure(retryCount, outcome) ==
    retryCount < MAX_RETRIES

\* shouldRetry
shouldRetry(retryCount, outcome) ==
    /\ retryCount < MAX_RETRIES
    /\ outcome.status # 0
    /\ (outcome.status = 429 \/ outcome.status >= 500)

\* A request handed to openDentalClient: its first attempt is on the wire.
\* outcomes lists how the attempts made so far ended, delays the waits before
\* the retries, retryCount is config.retryCount.
NewRequest ==
    [op |-> "openDentalClient", pc |-> "sending", retryCount |-> 0,
     outcomes |-> <<>>, delays |-> <<>>]

InitRetry ==
    /\ store = <<>>
    /\ nextId = 1
    /\ resp = NewRequest
    /\ req = [c \in Clients |-> IdleReq]
    /\ cmd = IdleCmd

\* An attempt ends and the response interceptor runs.
AttemptEnds(outcome) ==
    /\ resp.pc = "sending"
    /\ resp' =
          LET ended == [resp EXCEPT !.outcomes = Append(@, outcome)]
          IN  IF IsSuccess(outcome) THEN [ended EXCEPT !.pc = "resolved"]
              ELSE IF ~outcome.config THEN [ended EXCEPT !.pc = "rejected"]
              ELSE IF shouldRetry(resp.retryCount, outcome)
              THEN [ended EXCEPT
                      !.pc = "waiting",
                      !.retryCount = @ + 1,
                      !.delays = Append(@, INITIAL_RETRY_DELAY * Pow2(resp.retryCount))]
              ELSE [ended EXCEPT !.pc = "rejected"]
    /\ UNCHANGED <<store, nextId, req, cmd>>

\* setTimeout(resolve, delay) fires: return openDentalClient(config)
Resend ==
    /\ resp.pc = "waiting"
    /\ resp' = [resp EXCEPT !.pc = "sending"]
    /\ UNCHANGED <<store, nextId, req, cmd>>

Attempt == \E outcome \in Outcomes : AttemptEnds(outcome)

NextRetry == Attempt \/ Resend

\* Every attempt ends (a response, a network error or the timeout) and every
\* timer fires.
SpecRetry == InitRetry /\ [][NextRetry]_vars /\ WF_vars(NextRetry)

Retryable(outcome) ==
    outcome.config /\ (outcome.status = 429 \/ outcome.status >= 500)

\* C30: every request through the Open Dental client terminates; it is re-sent
\* only after a response with status 429 or >= 500, at most 3 times (4
\* attempts), after waits of 1000, 2000 and 4000 ms; a success resolves it, and
\* any other failure, like the failure of the fourth attempt, rejects it at
\* once.
C30_RetryTerminates ==
    /\ [](LET n == Len(resp.outcomes)
              last == resp.outcomes[n]
          IN  /\ n <= MAX_RETRIES + 1
              /\ resp.retryCount = Len(resp.delays)
              /\ \A i \in DOMAIN resp.delays :
                     /\ resp.delays[i] = <<1000, 2000, 4000>>[i]
                     /\ Retryable(resp.outcomes[i])
              /\ resp.pc = "sending" => n = resp.retryCount
              /\ resp.pc = "waiting" => n = resp.retryCount
              /\ resp.pc = "resolved"
                    => n = resp.retryCount + 1 /\ IsSuccess(last)
              /\ resp.pc = "rejected"
                    => /\ n = resp.retryCount + 1
                       /\ ~IsSuccess(last)
                       /\ ~Retryable(last) \/ n = MAX_RETRIES + 1)
    /\ <>(resp.pc \in {"resolved", "rejected"})

\* The fourth attempt failed like the three before it and the request was
\* rejected after waits of 1, 2 and 4 seconds.
C30_Witness ==
    /\ resp.pc = "rejected"
    /\ resp.delays = <<1000, 2000, 4000>>
    /\ Len(resp.outcomes) = 4
    /\ resp.outcomes[1].status = 429
    /\ resp.outcomes[4].status = 503

====
